---- MODULE Spec2Model ----
(***************************************************************************)
(* The backtracking recursive-descent parser of lkml/parser.py as a state  *)
(* machine.  The state is the Parser object (tokens, index, mark) together *)
(* with the Python call stack of the matcher methods, the value handed     *)
(* back by the last return, and how the outermost call ended.              *)
(*                                                                         *)
(* index is 0-based as in the source; the token under the cursor is        *)
(* tokens[index + 1] in TLA+'s 1-based sequences.                          *)
(***************************************************************************)
EXTENDS Integers, Sequences, FiniteSets, TLC

VARIABLES tokens, index, mark, stack, ret, status, entry

vars == <<tokens, index, mark, stack, ret, status, entry>>

(***************************************************************************)
(* Bounds of the input space.                                              *)
(***************************************************************************)
MaxPhrases == 3

(***************************************************************************)
(* Tokens.  Only LiteralToken and QuotedLiteralToken carry a payload.      *)
(***************************************************************************)
Tok(t, v) == [type |-> t, value |-> v]

StreamStartToken == Tok("StreamStart", "")
StreamEndToken == Tok("StreamEnd", "")
ValueToken == Tok("Value", "")
BlockStartToken == Tok("BlockStart", "")
BlockEndToken == Tok("BlockEnd", "")
ListStartToken == Tok("ListStart", "")
ListEndToken == Tok("ListEnd", "")
CommaToken == Tok("Comma", "")
SqlEndToken == Tok("SqlEnd", "")
LiteralToken(v) == Tok("Literal", v)
QuotedLiteralToken(v) == Tok("QuotedLiteral", v)

(***************************************************************************)
(* The streams handed to the constructor: an optional StreamStart, up to   *)
(* MaxPhrases phrases, and the terminating StreamEnd.  The phrases are the *)
(* pieces of the grammar (a key, a value, the opening of a block, a list   *)
(* and its parts, a bracket), so that well-formed entries, nested blocks   *)
(* and the ways of breaking them off are drawn.  StreamStart stands only   *)
(* at position 0 and StreamEnd only at the end, as the lexer emits them.   *)
(***************************************************************************)
Phrases ==
  { <<LiteralToken("a"), ValueToken>>,
    <<LiteralToken("b"), ValueToken>>,
    <<LiteralToken("a"), ValueToken, LiteralToken("n")>>,
    <<LiteralToken("b"), ValueToken, QuotedLiteralToken("q")>>,
    <<LiteralToken("a"), ValueToken, LiteralToken("n"), BlockStartToken>>,
    <<LiteralToken("b"), ValueToken, BlockStartToken>>,
    <<LiteralToken("b"), ValueToken, ListStartToken, LiteralToken("n"), ListEndToken>>,
    <<BlockEndToken>>,
    <<ListStartToken, LiteralToken("n")>>,
    <<CommaToken, QuotedLiteralToken("q")>>,
    <<ListEndToken>>,
    <<CommaToken, ListEndToken>>,
    <<ListStartToken, ListEndToken>>,
    <<SqlEndToken>> }

RECURSIVE Bodies(_)
Bodies(n) ==
  IF n = 0 THEN { <<>> }
  ELSE LET B == Bodies(n - 1)
       IN  B \cup { b \o p : b \in B, p \in Phrases }

TokenStreams ==
  { h \o b \o <<StreamEndToken>> :
      h \in { <<>>, <<StreamStartToken>> }, b \in Bodies(MaxPhrases) }

(***************************************************************************)
(* Python values.                                                          *)
(***************************************************************************)
NoMark == -1                      \* self.mark = None

\* A stack frame of one matcher call: its position, its locals (key,
\* literal, and the list it accumulates) and `at`, the cursor index at which
\* the call was entered.
Frame(fn, i) ==
  [fn |-> fn, pc |-> "body", at |-> i, key |-> "", literal |-> <<>>, acc |-> <<>>]

\* The dict entries the matchers build.  kind names the shape of the value
\* stored under the key: a str (pair), a list of str (list), or a dict with
\* "expression" and, when present, "name" (block).
PairEntry(k, v) ==
  [kind |-> "pair", key |-> k, value |-> v, name |-> <<>>, body |-> <<>>]
ListEntry(k, csv) ==
  [kind |-> "list", key |-> k, value |-> "", name |-> <<>>, body |-> csv]
BlockEntry(k, expression, name) ==
  [kind |-> "block", key |-> k, value |-> "", name |-> name, body |-> expression]

\* No return value is in flight.
NoRet == [fn |-> "", at |-> 0, keyed |-> FALSE, none |-> TRUE, val |-> <<>>]

Top == stack[Len(stack)]
Pop(s) == SubSeq(s, 1, Len(s) - 1)
ReplaceTop(s, f) == [s EXCEPT ![Len(s)] = f]


(***************************************************************************)
(* Stream primitives: peek, check, consume_token_value.                    *)
(***************************************************************************)
\* tokens[i] is a valid subscript (otherwise peek raises IndexError)
InRange(i) == 0 <= i /\ i < Len(tokens)

\* peek() at cursor position i
Peek(i) == tokens[i + 1]

\* check(*token_types) at cursor position i
Check(i, types) == Peek(i).type \in types

\* consume_token_value() at cursor position i: the payload (the cursor moves
\* on by one, which the callers below write as i + 1)
TokenValue(i) == Peek(i).value

\* set_mark: the value stored in self.mark when the cursor is at i
SetMark(i) == i

\* jump_to_mark: the value stored in self.index when self.mark is m
JumpToMark(m) == m

(***************************************************************************)
(* What one step of a matcher does: move on inside the method (goto), call *)
(* another matcher, return a value or None, or raise.  idx is the cursor   *)
(* index the step leaves behind.                                           *)
(***************************************************************************)
Goto(f, i) ==
  [op |-> "goto", frame |-> f, fn |-> "", idx |-> i, none |-> FALSE, val |-> <<>>, err |-> ""]
CallOut(f, fn, i) ==
  [op |-> "call", frame |-> f, fn |-> fn, idx |-> i, none |-> FALSE, val |-> <<>>, err |-> ""]
Return(f, v, i) ==
  [op |-> "return", frame |-> f, fn |-> "", idx |-> i, none |-> FALSE, val |-> v, err |-> ""]
ReturnNone(f, i) ==
  [op |-> "return", frame |-> f, fn |-> "", idx |-> i, none |-> TRUE, val |-> <<>>, err |-> ""]
Raise(f, e, i) ==
  [op |-> "raise", frame |-> f, fn |-> "", idx |-> i, none |-> FALSE, val |-> <<>>, err |-> e]

(***************************************************************************)
(* key = literal ':'                                                       *)
(***************************************************************************)
ParseKeyBody(f, r, i) ==
  IF ~InRange(i) THEN Raise(f, "IndexError", i)
  ELSE IF ~Check(i, {"Literal"}) THEN ReturnNone(f, i)
  ELSE IF ~InRange(i + 1) THEN Raise(f, "IndexError", i + 1)
  ELSE IF ~Check(i + 1, {"Value"}) THEN ReturnNone(f, i + 1)
  ELSE Return(f, TokenValue(i), i + 2)

(***************************************************************************)
(* value = quoted_literal / (literal sql_block_end?)                       *)
(***************************************************************************)
\* parse_value that leaves a SqlEnd after the literal unconsumed
ParseValueBodyKeepSqlEnd(f, r, i) ==
  IF ~InRange(i) THEN Raise(f, "IndexError", i)
  ELSE IF Check(i, {"QuotedLiteral"}) \/ Check(i, {"Literal"})
  THEN Return(f, TokenValue(i), i + 1)
  ELSE ReturnNone(f, i)

\* parse_value that advances past the token after the literal without
\* checking that it is a SqlEnd
ParseValueBodySkipAny(f, r, i) ==
  IF ~InRange(i) THEN Raise(f, "IndexError", i)
  ELSE IF Check(i, {"QuotedLiteral"}) THEN Return(f, TokenValue(i), i + 1)
  ELSE IF Check(i, {"Literal"}) THEN Return(f, TokenValue(i), i + 2)
  ELSE ReturnNone(f, i)

ParseValueBody(f, r, i) ==
  IF ~InRange(i) THEN Raise(f, "IndexError", i)
  ELSE IF Check(i, {"QuotedLiteral"}) THEN Return(f, TokenValue(i), i + 1)
  ELSE IF Check(i, {"Literal"}) THEN
    IF ~InRange(i + 1) THEN Raise(f, "IndexError", i + 1)
    ELSE IF Check(i + 1, {"SqlEnd"}) THEN Return(f, TokenValue(i), i + 2)
    ELSE Return(f, TokenValue(i), i + 1)
  ELSE ReturnNone(f, i)

(***************************************************************************)
(* csv = (literal / quoted_literal) ("," (literal / quoted_literal))*      *)
(***************************************************************************)
ParseCsvBody(f, r, i) ==
  IF ~InRange(i) THEN Raise(f, "IndexError", i)
  ELSE IF Check(i, {"Literal"}) \/ Check(i, {"QuotedLiteral"})
  THEN Goto([f EXCEPT !.pc = "loop", !.acc = Append(<<>>, TokenValue(i))], i + 1)
  ELSE ReturnNone(f, i)

ParseCsvLoop(f, r, i) ==
  IF ~InRange(i) THEN Raise(f, "IndexError", i)
  ELSE IF Check(i, {"ListEnd"}) THEN Return(f, f.acc, i)
  ELSE IF ~Check(i, {"Comma"}) THEN ReturnNone(f, i)
  ELSE IF ~InRange(i + 1) THEN Raise(f, "IndexError", i + 1)
  ELSE IF Check(i + 1, {"Literal"}) \/ Check(i + 1, {"QuotedLiteral"})
  THEN Goto([f EXCEPT !.acc = Append(f.acc, TokenValue(i + 1))], i + 2)
  ELSE ReturnNone(f, i + 1)

(***************************************************************************)
(* list = key literal? "[" csv "]"                                         *)
(***************************************************************************)
ParseListBody(f, r, i) == CallOut([f EXCEPT !.pc = "after_key"], "parse_key", i)

ParseListAfterKey(f, r, i) ==
  IF r.none THEN ReturnNone(f, i)
  ELSE IF ~InRange(i) THEN Raise(f, "IndexError", i)
  ELSE
    LET named == Check(i, {"Literal"})
        g == [f EXCEPT !.key = r.val,
                       !.literal = IF named THEN <<TokenValue(i)>> ELSE <<>>]
        j == IF named THEN i + 1 ELSE i
    IN  IF ~InRange(j) THEN Raise(g, "IndexError", j)
        ELSE IF Check(j, {"ListStart"})
        THEN CallOut([g EXCEPT !.pc = "after_csv"], "parse_csv", j + 1)
        ELSE ReturnNone(g, j)

ParseListAfterCsv(f, r, i) ==
  IF r.none THEN ReturnNone(f, i)
  ELSE IF ~InRange(i) THEN Raise(f, "IndexError", i)
  ELSE IF Check(i, {"ListEnd"}) THEN Return(f, ListEntry(f.key, r.val), i + 1)
  ELSE ReturnNone(f, i)

(***************************************************************************)
(* pair = key value                                                        *)
(***************************************************************************)
ParsePairBody(f, r, i) == CallOut([f EXCEPT !.pc = "after_key"], "parse_key", i)

ParsePairAfterKey(f, r, i) ==
  IF r.none THEN ReturnNone(f, i)
  ELSE CallOut([f EXCEPT !.key = r.val, !.pc = "after_value"], "parse_value", i)

ParsePairAfterValue(f, r, i) ==
  IF r.none THEN ReturnNone(f, i)
  ELSE Return(f, PairEntry(f.key, r.val), i)

(***************************************************************************)
(* block = key literal? "{" expression "}"                                 *)
(***************************************************************************)
ParseBlockBody(f, r, i) == CallOut([f EXCEPT !.pc = "after_key"], "parse_key", i)

ParseBlockAfterKey(f, r, i) ==
  IF r.none THEN ReturnNone(f, i)
  ELSE IF ~InRange(i) THEN Raise(f, "IndexError", i)
  ELSE
    LET named == Check(i, {"Literal"})
        g == [f EXCEPT !.key = r.val,
                       !.literal = IF named THEN <<TokenValue(i)>> ELSE <<>>]
        j == IF named THEN i + 1 ELSE i
    IN  IF ~InRange(j) THEN Raise(g, "IndexError", j)
        ELSE IF Check(j, {"BlockStart"})
        THEN CallOut([g EXCEPT !.pc = "after_expr"], "parse_expression", j + 1)
        ELSE ReturnNone(g, j)

\* `literal` is a local that line 132 binds only when a Literal follows the
\* key; line 149 reads it in every case, and reading it unbound raises
\* UnboundLocalError.  A bound name is added when it is truthy (non-empty).
ParseBlockAfterExpr(f, r, i) ==
  IF r.none THEN ReturnNone(f, i)
  ELSE IF ~InRange(i) THEN Raise(f, "IndexError", i)
  ELSE IF ~Check(i, {"BlockEnd"}) THEN ReturnNone(f, i)
  ELSE IF f.literal = <<>> THEN Raise(f, "UnboundLocalError", i + 1)
  ELSE Return(f,
              BlockEntry(f.key, r.val, IF f.literal[1] # "" THEN f.literal ELSE <<>>),
              i + 1)

(***************************************************************************)
(* expression = (block / pair / list)*                                     *)
(***************************************************************************)
\* an expression kept like a dict: an entry with a key already present
\* overwrites the earlier entry
AppendEntryByKey(expression, e) ==
  IF \E n \in 1..Len(expression) : expression[n].key = e.key
  THEN [n \in 1..Len(expression) |->
          IF expression[n].key = e.key THEN e ELSE expression[n]]
  ELSE Append(expression, e)

\* expression.append(entry)
AppendEntry(expression, e) == Append(expression, e)

\* the token kinds that end the dispatch loop (line 101)
LoopEnd == {"StreamEnd", "BlockEnd"}

ParseExpressionBody(f, r, i) ==
  IF ~InRange(i) THEN Raise(f, "IndexError", i)
  ELSE IF Check(i, {"StreamStart"}) THEN Goto([f EXCEPT !.pc = "loop"], i + 1)
  ELSE Goto([f EXCEPT !.pc = "loop"], i)

ParseExpressionLoop(f, r, i) ==
  IF ~InRange(i) THEN Raise(f, "IndexError", i)
  ELSE IF Check(i, LoopEnd) THEN Return(f, f.acc, i)
  ELSE CallOut([f EXCEPT !.pc = "after_block"], "parse_block", i)

ParseExpressionAfterBlock(f, r, i) ==
  IF ~r.none
  THEN Goto([f EXCEPT !.pc = "loop", !.acc = AppendEntry(f.acc, r.val)], i)
  ELSE CallOut([f EXCEPT !.pc = "after_pair"], "parse_pair", i)

ParseExpressionAfterPair(f, r, i) ==
  IF ~r.none
  THEN Goto([f EXCEPT !.pc = "loop", !.acc = AppendEntry(f.acc, r.val)], i)
  ELSE CallOut([f EXCEPT !.pc = "after_list"], "parse_list", i)

ParseExpressionAfterList(f, r, i) ==
  IF ~r.none
  THEN Goto([f EXCEPT !.pc = "loop", !.acc = AppendEntry(f.acc, r.val)], i)
  ELSE Raise(f, "SyntaxError", i)

(***************************************************************************)
(* backtrack_if_none and the call mechanics: a call enters the wrapper,    *)
(* which sets the one shared mark to the cursor and pushes the method; a   *)
(* return leaves through the wrapper, which moves the cursor to the shared *)
(* mark when the result is None; an exception unwinds every frame and no   *)
(* wrapper restores anything.                                              *)
(***************************************************************************)
Apply(o) ==
  /\ entry' = entry
  /\ tokens' = tokens
  /\ CASE o.op = "goto" ->
            /\ stack' = ReplaceTop(stack, o.frame)
            /\ index' = o.idx
            /\ mark' = mark
            /\ ret' = NoRet
            /\ status' = status
       [] o.op = "call" ->
            /\ stack' = Append(ReplaceTop(stack, o.frame), Frame(o.fn, o.idx))
            /\ index' = o.idx
            /\ mark' = SetMark(o.idx)
            /\ ret' = NoRet
            /\ status' = status
       [] o.op = "return" ->
            /\ stack' = Pop(stack)
            /\ index' = IF o.none THEN JumpToMark(mark) ELSE o.idx
            /\ mark' = mark
            /\ ret' = [fn |-> o.frame.fn, at |-> o.frame.at, keyed |-> o.frame.key # "",
                       none |-> o.none, val |-> o.val]
            /\ status' = IF Len(stack) = 1 THEN "returned" ELSE status
       [] o.op = "raise" ->
            /\ stack' = <<>>
            /\ index' = o.idx
            /\ mark' = mark
            /\ ret' = NoRet
            /\ status' = o.err

At(fn, pc) == status = "running" /\ stack # <<>> /\ Top.fn = fn /\ Top.pc = pc

(***************************************************************************)
(* The methods a caller invokes on a fresh Parser: parse(), which is       *)
(* parse_expression(), and the matchers of the three entry productions.    *)
(* key, value and csv run as their sub-matchers.                           *)
(***************************************************************************)
Methods == {"parse", "parse_block", "parse_pair", "parse_list"}

Matcher(m) == IF m = "parse" THEN "parse_expression" ELSE m

Init ==
  /\ tokens \in TokenStreams
  /\ index = 0
  /\ mark = NoMark
  /\ stack = <<>>
  /\ ret = NoRet
  /\ status = "idle"
  /\ entry = ""

CallMethod ==
  /\ status = "idle"
  /\ \E m \in Methods :
       /\ entry' = m
       /\ stack' = <<Frame(Matcher(m), index)>>
       /\ mark' = SetMark(index)
  /\ status' = "running"
  /\ UNCHANGED <<tokens, index, ret>>

ParseKey == At("parse_key", "body") /\ Apply(ParseKeyBody(Top, ret, index))
ParseValue == At("parse_value", "body") /\ Apply(ParseValueBody(Top, ret, index))
ParseCsvFirst == At("parse_csv", "body") /\ Apply(ParseCsvBody(Top, ret, index))
ParseCsvNext == At("parse_csv", "loop") /\ Apply(ParseCsvLoop(Top, ret, index))
ParseListKey == At("parse_list", "body") /\ Apply(ParseListBody(Top, ret, index))
ParseListOpen == At("parse_list", "after_key") /\ Apply(ParseListAfterKey(Top, ret, index))
ParseListClose == At("parse_list", "after_csv") /\ Apply(ParseListAfterCsv(Top, ret, index))
ParsePairKey == At("parse_pair", "body") /\ Apply(ParsePairBody(Top, ret, index))
ParsePairValue == At("parse_pair", "after_key") /\ Apply(ParsePairAfterKey(Top, ret, index))
ParsePairDone == At("parse_pair", "after_value") /\ Apply(ParsePairAfterValue(Top, ret, index))
ParseBlockKey == At("parse_block", "body") /\ Apply(ParseBlockBody(Top, ret, index))
ParseBlockOpen == At("parse_block", "after_key") /\ Apply(ParseBlockAfterKey(Top, ret, index))
ParseBlockClose == At("parse_block", "after_expr") /\ Apply(ParseBlockAfterExpr(Top, ret, index))
ParseExpressionStart ==
  At("parse_expression", "body") /\ Apply(ParseExpressionBody(Top, ret, index))
ParseExpressionDispatch ==
  At("parse_expression", "loop") /\ Apply(ParseExpressionLoop(Top, ret, index))
ParseExpressionTryPair ==
  At("parse_expression", "after_block") /\ Apply(ParseExpressionAfterBlock(Top, ret, index))
ParseExpressionTryList ==
  At("parse_expression", "after_pair") /\ Apply(ParseExpressionAfterPair(Top, ret, index))
ParseExpressionNoMatch ==
  At("parse_expression", "after_list") /\ Apply(ParseExpressionAfterList(Top, ret, index))

Next ==
  \/ CallMethod
  \/ ParseKey
  \/ ParseValue
  \/ ParseCsvFirst
  \/ ParseCsvNext
  \/ ParseListKey
  \/ ParseListOpen
  \/ ParseListClose
  \/ ParsePairKey
  \/ ParsePairValue
  \/ ParsePairDone
  \/ ParseBlockKey
  \/ ParseBlockOpen
  \/ ParseBlockClose
  \/ ParseExpressionStart
  \/ ParseExpressionDispatch
  \/ ParseExpressionTryPair
  \/ ParseExpressionTryList
  \/ ParseExpressionNoMatch

Spec == Init /\ [][Next]_vars


(***************************************************************************)
(* The grammar of the module docstring (lines 9-31), read as a prioritized *)
(* choice over positions of a token sequence s (1-based).  Each matcher    *)
(* yields whether it matches at position p, the position after the match   *)
(* and the value the grammar assigns.  This is what the properties below   *)
(* compare the parser with.                                                *)
(***************************************************************************)
KindAt(s, p) == IF p \in 1..Len(s) THEN s[p].type ELSE "none"

NoMatch == [ok |-> FALSE, next |-> 0, val |-> <<>>]
Match(n, v) == [ok |-> TRUE, next |-> n, val |-> v]

GKey(s, p) ==
  IF KindAt(s, p) = "Literal" /\ KindAt(s, p + 1) = "Value"
  THEN Match(p + 2, s[p].value) ELSE NoMatch

GValue(s, p) ==
  IF KindAt(s, p) = "QuotedLiteral" THEN Match(p + 1, s[p].value)
  ELSE IF KindAt(s, p) = "Literal"
  THEN Match(IF KindAt(s, p + 1) = "SqlEnd" THEN p + 2 ELSE p + 1, s[p].value)
  ELSE NoMatch

RECURSIVE GCsvRest(_, _, _)
GCsvRest(s, p, acc) ==
  IF KindAt(s, p) = "Comma" /\ KindAt(s, p + 1) \in {"Literal", "QuotedLiteral"}
  THEN GCsvRest(s, p + 2, Append(acc, s[p + 1].value))
  ELSE Match(p, acc)

GCsv(s, p) ==
  IF KindAt(s, p) \in {"Literal", "QuotedLiteral"}
  THEN GCsvRest(s, p + 1, <<s[p].value>>) ELSE NoMatch

GPair(s, p) ==
  LET k == GKey(s, p) IN
  IF ~k.ok THEN NoMatch
  ELSE LET v == GValue(s, k.next) IN
       IF v.ok THEN Match(v.next, PairEntry(k.val, v.val)) ELSE NoMatch

GList(s, p) ==
  LET k == GKey(s, p) IN
  IF ~k.ok THEN NoMatch
  ELSE LET q == IF KindAt(s, k.next) = "Literal" THEN k.next + 1 ELSE k.next IN
       IF KindAt(s, q) # "ListStart" THEN NoMatch
       ELSE LET c == GCsv(s, q + 1) IN
            IF c.ok /\ KindAt(s, c.next) = "ListEnd"
            THEN Match(c.next + 1, ListEntry(k.val, c.val)) ELSE NoMatch

RECURSIVE GExpression(_, _)
GBlock(s, p) ==
  LET k == GKey(s, p) IN
  IF ~k.ok THEN NoMatch
  ELSE LET named == KindAt(s, k.next) = "Literal"
           q == IF named THEN k.next + 1 ELSE k.next
       IN  IF KindAt(s, q) # "BlockStart" THEN NoMatch
           ELSE LET e == GExpression(s, q + 1) IN
                IF KindAt(s, e.next) = "BlockEnd"
                THEN Match(e.next + 1,
                           BlockEntry(k.val, e.val,
                                      IF named THEN <<s[k.next].value>> ELSE <<>>))
                ELSE NoMatch

GEntry(s, p) ==
  LET b == GBlock(s, p) IN
  IF b.ok THEN b
  ELSE LET pr == GPair(s, p) IN IF pr.ok THEN pr ELSE GList(s, p)

GExpression(s, p) ==
  LET e == GEntry(s, p) IN
  IF ~e.ok THEN Match(p, <<>>)
  ELSE LET r == GExpression(s, e.next) IN Match(r.next, <<e.val>> \o r.val)

(***************************************************************************)
(* How a call of a public method ended.                                    *)
(***************************************************************************)
Finished == status \notin {"idle", "running"}
ParseFinished == entry = "parse" /\ Finished
ParseReturned == entry = "parse" /\ status = "returned"


(***************************************************************************)
(* Shapes of whole streams.                                                *)
(***************************************************************************)
\* StreamStart, Literal k, ':', '[', v1, ',', ..., vn, ']', StreamEnd
IsListStream(s) ==
  /\ KindAt(s, 1) = "StreamStart"
  /\ KindAt(s, 4) = "ListStart"
  /\ GList(s, 2).ok
  /\ GList(s, 2).next = Len(s)
  /\ KindAt(s, Len(s)) = "StreamEnd"

\* Literal k, ':', '{', body, '}', StreamEnd with body a valid expression
IsNamelessBlockStream(s) ==
  /\ GKey(s, 1).ok
  /\ KindAt(s, 3) = "BlockStart"
  /\ KindAt(s, GExpression(s, 4).next) = "BlockEnd"
  /\ GExpression(s, 4).next = Len(s) - 1
  /\ KindAt(s, Len(s)) = "StreamEnd"

\* StreamStart, Literal k, ':', Literal n, '{', body, '}', StreamEnd with body
\* a sequence of valid entries
IsNamedBlockStream(s) ==
  /\ KindAt(s, 1) = "StreamStart"
  /\ GKey(s, 2).ok
  /\ KindAt(s, 4) = "Literal"
  /\ KindAt(s, 5) = "BlockStart"
  /\ KindAt(s, GExpression(s, 6).next) = "BlockEnd"
  /\ GExpression(s, 6).next = Len(s) - 1
  /\ KindAt(s, Len(s)) = "StreamEnd"

\* StreamStart, Literal k, ':', V, StreamEnd with V a QuotedLiteral, a Literal,
\* or a Literal followed by SqlEnd
IsPairStream(s) ==
  /\ KindAt(s, 1) = "StreamStart"
  /\ GKey(s, 2).ok
  /\ \/ Len(s) = 5 /\ KindAt(s, 4) \in {"Literal", "QuotedLiteral"}
     \/ Len(s) = 6 /\ KindAt(s, 4) = "Literal" /\ KindAt(s, 5) = "SqlEnd"
  /\ KindAt(s, Len(s)) = "StreamEnd"

\* a list with nothing between '[' and ']', or with ',' right before ']'
HasEmptyOrTrailingList(s) ==
  \E p \in 1..Len(s) :
    \/ /\ KindAt(s, p) = "ListStart"
       /\ KindAt(s, p + 1) = "ListEnd"
       /\ GKey(s, p - 2).ok
    \/ /\ KindAt(s, p) = "Comma"
       /\ KindAt(s, p + 1) = "ListEnd"
       /\ \E o \in 1..p : KindAt(s, o) = "ListStart" /\ GKey(s, o - 2).ok
                           /\ GCsv(s, o + 1).ok /\ GCsv(s, o + 1).next = p

(***************************************************************************)
(* C1.  parse() of StreamStart k ':' '[' v1 ',' ... ',' vn ']' StreamEnd   *)
(* returns the Document holding exactly the List entry {k: [v1 ... vn]},   *)
(* the values in input order.                                              *)
(***************************************************************************)
C1_ListStreamParsed ==
  (ParseFinished /\ IsListStream(tokens)) =>
    /\ status = "returned"
    /\ ret.val = <<GList(tokens, 2).val>>

(***************************************************************************)
(* C2.  The block name is optional: the Block matcher run on             *)
(* k ':' '{' body '}' with a valid body returns the Block entry           *)
(* {k: {expression: D}} without a name, and does not fail or raise.       *)
(***************************************************************************)
C2_NamelessBlockParsed ==
  (entry = "parse_block" /\ Finished /\ IsNamelessBlockStream(tokens)) =>
    /\ status = "returned"
    /\ ~ret.none
    /\ ret.val = BlockEntry(tokens[1].value, GExpression(tokens, 4).val, <<>>)

(***************************************************************************)
(* C3.  Backtracking of Block: when the Block matcher has matched its key  *)
(* and then returns no-match, the cursor index is the index at which the   *)
(* Block attempt started.                                                  *)
(***************************************************************************)
C3_BlockBacktracks ==
  (ret.fn = "parse_block" /\ ret.none /\ ret.keyed) => index = ret.at

(***************************************************************************)
(* C4.  Whenever parse() returns a Document, the cursor stands on the      *)
(* terminating StreamEnd token.                                            *)
(***************************************************************************)
C4_ReturnsAtStreamEnd ==
  ParseReturned => (index = Len(tokens) - 1 /\ Peek(index).type = "StreamEnd")

(***************************************************************************)
(* C6.  parse() of StreamStart k ':' n '{' body '}' StreamEnd, body a      *)
(* sequence of valid entries, returns the Document holding exactly the     *)
(* Block entry {k: {name: n, expression: D}}, D the Document of body.      *)
(***************************************************************************)
C6_NamedBlockStreamParsed ==
  (ParseFinished /\ IsNamedBlockStream(tokens)) =>
    /\ status = "returned"
    /\ ret.val = <<BlockEntry(tokens[2].value, GExpression(tokens, 6).val,
                              <<tokens[4].value>>)>>

(***************************************************************************)
(* C7.  parse() of a stream that contains an empty list or a list with a   *)
(* trailing comma never returns a Document.                                *)
(***************************************************************************)
C7_BadListNeverReturns ==
  (entry = "parse" /\ HasEmptyOrTrailingList(tokens)) => status # "returned"

(***************************************************************************)
(* C9.  Backtracking of Pair: whenever the Pair matcher returns no-match,  *)
(* the cursor index is the index at which the Pair attempt started.        *)
(***************************************************************************)
C9_PairBacktracks ==
  (ret.fn = "parse_pair" /\ ret.none) => index = ret.at


(***************************************************************************)
(* C5.  parse() of StreamStart k ':' V StreamEnd, V a QuotedLiteral v, a   *)
(* Literal v, or a Literal v followed by SqlEnd, returns the Document      *)
(* holding exactly the Pair entry {k: v}; a SqlEnd is consumed and shows   *)
(* neither in the value nor as an entry of its own.                        *)
(***************************************************************************)
C5_PairStreamParsed ==
  (ParseFinished /\ IsPairStream(tokens)) =>
    /\ status = "returned"
    /\ ret.val = <<PairEntry(tokens[2].value, tokens[4].value)>>
    /\ index = Len(tokens) - 1

\* parse() has returned on k ':' v ';;'
C5_Witness ==
  /\ ParseReturned
  /\ IsPairStream(tokens)
  /\ KindAt(tokens, 5) = "SqlEnd"
  /\ Len(ret.val) = 1

(***************************************************************************)
(* C8.  Order preservation: when parse() returns, the keys of the          *)
(* Document's entries, each block followed by the entries nested in it,    *)
(* are the keys of the consumed tokens in stream order: one entry per      *)
(* parsed construct, none reordered, none merged with or overwritten by    *)
(* another entry of the same key.                                          *)
(***************************************************************************)
RECURSIVE DocKeys(_)
DocKeys(d) ==
  IF d = <<>> THEN <<>>
  ELSE <<Head(d).key>>
         \o (IF Head(d).kind = "block" THEN DocKeys(Head(d).body) ELSE <<>>)
         \o DocKeys(Tail(d))

\* the payloads of the keys (Literal, ':') that lie within the first n tokens
RECURSIVE StreamKeys(_, _)
StreamKeys(s, n) ==
  IF n < 2 THEN <<>>
  ELSE StreamKeys(s, n - 1)
         \o (IF GKey(s, n - 1).ok THEN <<s[n - 1].value>> ELSE <<>>)

C8_OrderPreserved ==
  ParseReturned => DocKeys(ret.val) = StreamKeys(tokens, index)

\* parse() has returned a Document whose first two entries share their key
C8_Witness ==
  /\ ParseReturned
  /\ Len(ret.val) >= 2
  /\ ret.val[1].key = ret.val[2].key

(***************************************************************************)
(* C10.  Cursor range: in every state of a call on a stream that ends in   *)
(* StreamEnd, 0 <= index <= len(stream); the cursor never passes the       *)
(* terminating StreamEnd and no peek reads outside the stream.             *)
(***************************************************************************)
C10_CursorInRange ==
  /\ 0 <= index
  /\ index <= Len(tokens)
  /\ InRange(index)
  /\ status # "IndexError"

\* a call ended in a syntax error with the cursor, last moved by
\* jump_to_mark, on the terminating StreamEnd
C10_Witness ==
  /\ status = "SyntaxError"
  /\ index = Len(tokens) - 1
  /\ mark = index
  /\ index > 0

====
